---- MODULE Spec2Model ----
(***************************************************************************)
(* Model of package mattress (src/mattress.go, the mutex-guarded revision  *)
(* at lines 135-222): Secret[T], NewSecret, zero, Expose and String.       *)
(*                                                                         *)
(* A Secret owns one memguard.LockedBuffer and one sync.Mutex.  Goroutines *)
(* that hold a pointer to a Secret call Expose, String and (inside the     *)
(* package) zero; the runtime's finalizer goroutine calls zero once no     *)
(* pointer to the Secret is left.                                          *)
(*                                                                         *)
(* memguard and encoding/gob are libraries the package calls.  They are    *)
(* modelled by what the calls do:                                          *)
(*   gob Encode     a length-prefixed, type-tagged byte sequence;          *)
(*   gob Decode     fails on an empty, truncated or mistagged sequence;    *)
(*   NewEnclave     copies the bytes into the enclave and wipes the source;*)
(*   Open           yields a live LockedBuffer holding the bytes, or fails;*)
(*   Bytes          a slice of the buffer's memory, nil once destroyed;    *)
(*   Destroy        wipes the memory byte by byte, then unmaps it; a       *)
(*                  no-op on a destroyed buffer; serialised against other  *)
(*                  Destroy calls by the buffer's own lock, but not        *)
(*                  against readers of a slice obtained from Bytes.        *)
(***************************************************************************)
EXTENDS Integers, Sequences, FiniteSets, TLC

\* ---------------------------------------------------------------- bounds
NumThreads == 2
NumCells == 1
NumValues == 3

\* ------------------------------------------------------------- constants
\* the finalizer goroutine of the Go runtime (runtime.SetFinalizer)
Fin == 0
\* the wire tag gob writes for the payload type
GobTypeId == 12
\* what String returns
SecretToken == "[SECRET]"

Threads == 1..NumThreads
Procs == Threads \cup {Fin}
Cells == 1..NumCells
\* the Secrets of the specification that looks at Secrets side by side: at
\* least two
MoreCells == 1..(IF NumCells < 2 THEN 2 ELSE NumCells)

\* values of the payload type T: the first NumValues byte strings, shortest
\* first: "", "\x01", "\x02", "\x01\x01", ...
RECURSIVE Value(_)
Value(i) == IF i = 0 THEN <<>> ELSE Append(Value((i - 1) \div 2), ((i - 1) % 2) + 1)
Values == {Value(i) : i \in 0..(NumValues - 1)}
\* var data T
ZeroValue == <<>>

VARIABLES
    buffer,     \* buffer[c]: the LockedBuffer of Secret c: [made, alive, data]
    mutex,      \* mutex[c]: TRUE while Secret c's sync.Mutex is locked
    finalizer,  \* finalizer[c]: "none", "set" (registered), "ran"
    reachable,  \* reachable[c]: some goroutine still holds a pointer to Secret c
    orig,       \* orig[c]: the value Secret c was constructed with (history)
    pc,         \* pc[p]: where goroutine p is inside Expose or zero
    cur,        \* cur[p]: the Secret goroutine p is operating on
    slice,      \* slice[p]: "none", "nil" or "ref": what Bytes() gave p
    data,       \* data[p]: the local `data` of p's Expose call
    dead,       \* dead[t]: the Secret was already destroyed when t's
                \* Expose call began (history)
    out,        \* what the step just taken handed back to its caller, when
                \* it was a call of NewSecret (with the final contents of
                \* its intermediate byte buffer), of String, or of zero on
                \* a destroyed buffer
    crashed     \* TRUE once the process died on a memory fault

vars == <<buffer, mutex, finalizer, reachable, orig, pc, cur, slice, data, dead,
          out, crashed>>

\* ------------------------------------------------------- pure operators
Zeros(n) == [i \in 1..n |-> 0]

AllZero(b) == \A i \in 1..Len(b) : b[i] = 0

\* what gob writes ahead of the payload: message length and type tag
Header(v) == <<Len(v) + 1, GobTypeId>>

\* bytes.Buffer contents after a successful enc.Encode(data)
Encode(v) == Header(v) \o v

\* a decoder that hands back the type tag along with the payload
Decode_KeepsTag(b) ==
    IF Len(b) < 2 THEN [ok |-> FALSE, val |-> ZeroValue]
    ELSE IF b[1] # Len(b) - 1 \/ b[2] # GobTypeId
         THEN [ok |-> FALSE, val |-> ZeroValue]
         ELSE [ok |-> TRUE, val |-> SubSeq(b, 2, Len(b))]

\* gob.NewDecoder(bytes.NewReader(b)).Decode(&data)
Decode(b) ==
    IF Len(b) < 2 THEN [ok |-> FALSE, val |-> ZeroValue]
    ELSE IF b[1] # Len(b) - 1 \/ b[2] # GobTypeId
         THEN [ok |-> FALSE, val |-> ZeroValue]
         ELSE [ok |-> TRUE, val |-> SubSeq(b, 3, Len(b))]

\* memguard.WipeBytes(bytes)
WipeBytes(b) == Zeros(Len(b))

\* the first k bytes of b wiped
WipedTo(b, k) == [i \in 1..Len(b) |-> IF i <= k THEN 0 ELSE b[i]]

\* number of leading bytes of b already wiped
Wiped(b) == Cardinality({k \in 1..Len(b) : \A i \in 1..k : b[i] = 0})

\* what a read of memory b can see while a wipe of b is running (data race)
TornReads(b) == {[i \in 1..Len(b) |-> IF i \in Z THEN 0 ELSE b[i]] :
                    Z \in SUBSET (1..Len(b))}

NoBuffer == [made |-> FALSE, alive |-> FALSE, data |-> <<>>]
NoOut == [op |-> "none", kind |-> "none", cell |-> 0, buf |-> <<>>, str |-> ""]

\* NewSecret handed back a Secret or an error, leaving buf in its bytes.Buffer
Built(kind, c, buf) ==
    [NoOut EXCEPT !.op = "NewSecret", !.kind = kind, !.cell = c, !.buf = buf]

\* zero() on Secret c came back at once: its buffer was destroyed already
Returned(c) == [NoOut EXCEPT !.op = "zero", !.kind = "noop", !.cell = c]

\* the Secret identities of the behaviour
Secrets == DOMAIN buffer

\* a destroy of Secret c is in progress
Destroying(c) == \E p \in Procs : pc[p] = "wiping" /\ cur[p] = c

\* goroutine t is inside Expose on Secret c, between Lock and Unlock
InExpose(t, c) == pc[t] \in {"locked", "bytes", "return"} /\ cur[t] = c

Live(c) == buffer[c].made /\ buffer[c].alive /\ ~Destroying(c)
Released(c) == buffer[c].made /\ ~buffer[c].alive

\* ----------------------------------------------------------------- Init
\* no Secret of S constructed yet, every goroutine outside the package
InitOn(S) ==
    /\ buffer = [c \in S |-> NoBuffer]
    /\ mutex = [c \in S |-> FALSE]
    /\ finalizer = [c \in S |-> "none"]
    /\ reachable = [c \in S |-> FALSE]
    /\ orig = [c \in S |-> ZeroValue]
    /\ pc = [p \in Procs |-> "idle"]
    /\ cur = [p \in Procs |-> 0]
    /\ slice = [p \in Procs |-> "none"]
    /\ data = [p \in Procs |-> ZeroValue]
    /\ dead = [t \in Threads |-> FALSE]
    /\ out = NoOut
    /\ crashed = FALSE

Init == InitOn(Cells)

InitCells == InitOn(MoreCells)

\* --------------------------------------------------------------- actions
\* the lowest Secret identity not yet constructed
FreshCell == CHOOSE c \in Secrets : ~buffer[c].made /\ \A d \in Secrets : d < c => buffer[d].made

\* a NewSecret that leaves the opened LockedBuffer behind when Open reports
\* an error
NewSecret_KeepsBufferOnError(t, v, encOK, openOK, k) ==
    /\ ~crashed
    /\ pc[t] = "idle"
    /\ \E c \in Secrets : ~buffer[c].made
    /\ LET bytes == Encode(v)
           c == FreshCell
       IN  IF ~encOK
           THEN /\ k <= Len(Header(v))
                /\ out' = Built("encodeErr", 0, SubSeq(bytes, 1, k))
                /\ UNCHANGED <<buffer, finalizer, reachable, orig>>
           ELSE IF ~openOK
           THEN /\ k = 0
                /\ buffer' = [buffer EXCEPT ![c] = [made |-> TRUE, alive |-> TRUE, data |-> bytes]]
                /\ out' = Built("openErr", 0, Zeros(Len(bytes)))
                /\ UNCHANGED <<finalizer, reachable, orig>>
           ELSE /\ k = 0
                /\ buffer' = [buffer EXCEPT ![c] = [made |-> TRUE, alive |-> TRUE, data |-> bytes]]
                /\ finalizer' = [finalizer EXCEPT ![c] = "set"]
                /\ reachable' = [reachable EXCEPT ![c] = TRUE]
                /\ orig' = [orig EXCEPT ![c] = v]
                /\ out' = Built("secret", c, WipeBytes(bytes))
    /\ UNCHANGED <<mutex, pc, cur, slice, data, dead, crashed>>

\* a NewSecret without the runtime.SetFinalizer call
NewSecret_NoFinalizer(t, v, encOK, openOK, k) ==
    /\ ~crashed
    /\ pc[t] = "idle"
    /\ \E c \in Secrets : ~buffer[c].made
    /\ LET bytes == Encode(v)
           c == FreshCell
       IN  IF ~encOK
           THEN /\ k <= Len(Header(v))
                /\ out' = Built("encodeErr", 0, SubSeq(bytes, 1, k))
                /\ UNCHANGED <<buffer, finalizer, reachable, orig>>
           ELSE IF ~openOK
           THEN /\ k = 0
                /\ out' = Built("openErr", 0, Zeros(Len(bytes)))
                /\ UNCHANGED <<buffer, finalizer, reachable, orig>>
           ELSE /\ k = 0
                /\ buffer' = [buffer EXCEPT ![c] = [made |-> TRUE, alive |-> TRUE, data |-> bytes]]
                /\ UNCHANGED finalizer
                /\ reachable' = [reachable EXCEPT ![c] = TRUE]
                /\ orig' = [orig EXCEPT ![c] = v]
                /\ out' = Built("secret", c, WipeBytes(bytes))
    /\ UNCHANGED <<mutex, pc, cur, slice, data, dead, crashed>>

\* NewSecret(data) called by goroutine t.  encOK: enc.Encode succeeds;
\* openOK: enclave.Open succeeds; k: how many bytes gob had already written
\* to the bytes.Buffer (type information, never the payload) when Encode
\* failed.
NewSecret(t, v, encOK, openOK, k) ==
    /\ ~crashed
    /\ pc[t] = "idle"
    /\ \E c \in Secrets : ~buffer[c].made
    /\ LET bytes == Encode(v)
           c == FreshCell
       IN  IF ~encOK
           THEN \* return nil, err      (the buffer is left as written)
                /\ k <= Len(Header(v))
                /\ out' = Built("encodeErr", 0, SubSeq(bytes, 1, k))
                /\ UNCHANGED <<buffer, finalizer, reachable, orig>>
           ELSE IF ~openOK
           THEN \* NewEnclave(bytes) wiped bytes; Open failed: return nil, err
                /\ k = 0
                /\ out' = Built("openErr", 0, Zeros(Len(bytes)))
                /\ UNCHANGED <<buffer, finalizer, reachable, orig>>
           ELSE \* WipeBytes(bytes); secret := &Secret{buffer}; SetFinalizer
                /\ k = 0
                /\ buffer' = [buffer EXCEPT ![c] = [made |-> TRUE, alive |-> TRUE, data |-> bytes]]
                /\ finalizer' = [finalizer EXCEPT ![c] = "set"]
                /\ reachable' = [reachable EXCEPT ![c] = TRUE]
                /\ orig' = [orig EXCEPT ![c] = v]
                /\ out' = Built("secret", c, WipeBytes(bytes))
    /\ UNCHANGED <<mutex, pc, cur, slice, data, dead, crashed>>

\* an Expose that does not wait for the mutex
ExposeLock_NoWait(t, c) ==
    /\ ~crashed
    /\ pc[t] = "idle"
    /\ reachable[c]
    /\ mutex' = [mutex EXCEPT ![c] = TRUE]
    /\ pc' = [pc EXCEPT ![t] = "locked"]
    /\ cur' = [cur EXCEPT ![t] = c]
    /\ dead' = [dead EXCEPT ![t] = Released(c)]
    /\ out' = NoOut
    /\ UNCHANGED <<buffer, finalizer, reachable, orig, slice, data, crashed>>

\* Expose: s.mutex.Lock()
ExposeLock(t, c) ==
    /\ ~crashed
    /\ pc[t] = "idle"
    /\ reachable[c]
    /\ ~mutex[c]
    /\ mutex' = [mutex EXCEPT ![c] = TRUE]
    /\ pc' = [pc EXCEPT ![t] = "locked"]
    /\ cur' = [cur EXCEPT ![t] = c]
    /\ dead' = [dead EXCEPT ![t] = Released(c)]
    /\ out' = NoOut
    /\ UNCHANGED <<buffer, finalizer, reachable, orig, slice, data, crashed>>

\* Expose: s.buffer.Bytes()
ExposeBytes(t) ==
    /\ ~crashed
    /\ pc[t] = "locked"
    /\ slice' = [slice EXCEPT ![t] = IF buffer[cur[t]].alive THEN "ref" ELSE "nil"]
    /\ pc' = [pc EXCEPT ![t] = "bytes"]
    /\ out' = NoOut
    /\ UNCHANGED <<buffer, mutex, finalizer, reachable, orig, cur, data, dead, crashed>>

\* an Expose that leaves at once, past the Unlock, when Decode reports an
\* error on a nil slice
ExposeDecode_BailsLocked(t) ==
    /\ ~crashed
    /\ pc[t] = "bytes"
    /\ LET c == cur[t] IN
       IF slice[t] = "nil"
       THEN /\ data' = [data EXCEPT ![t] = Decode(<<>>).val]
            /\ pc' = [pc EXCEPT ![t] = "idle"]
            /\ UNCHANGED crashed
       ELSE IF ~buffer[c].alive
       THEN /\ crashed' = TRUE
            /\ UNCHANGED <<data, pc>>
       ELSE /\ \E b \in (IF Destroying(c) THEN TornReads(buffer[c].data) ELSE {buffer[c].data}) :
                  data' = [data EXCEPT ![t] = Decode(b).val]
            /\ pc' = [pc EXCEPT ![t] = "return"]
            /\ UNCHANGED crashed
    /\ out' = NoOut
    /\ UNCHANGED <<buffer, mutex, finalizer, reachable, orig, cur, slice, dead>>

\* Expose: gob.NewDecoder(bytes.NewReader(...)).Decode(&data), error dropped
ExposeDecode(t) ==
    /\ ~crashed
    /\ pc[t] = "bytes"
    /\ LET c == cur[t] IN
       IF slice[t] = "nil"
       THEN /\ data' = [data EXCEPT ![t] = Decode(<<>>).val]
            /\ pc' = [pc EXCEPT ![t] = "return"]
            /\ UNCHANGED crashed
       ELSE IF ~buffer[c].alive
       THEN \* the slice points into memory Destroy has unmapped
            /\ crashed' = TRUE
            /\ UNCHANGED <<data, pc>>
       ELSE /\ \E b \in (IF Destroying(c) THEN TornReads(buffer[c].data) ELSE {buffer[c].data}) :
                  data' = [data EXCEPT ![t] = Decode(b).val]
            /\ pc' = [pc EXCEPT ![t] = "return"]
            /\ UNCHANGED crashed
    /\ out' = NoOut
    /\ UNCHANGED <<buffer, mutex, finalizer, reachable, orig, cur, slice, dead>>

\* an Expose without the deferred Unlock
ExposeReturn_NoUnlock(t) ==
    /\ ~crashed
    /\ pc[t] = "return"
    /\ dead' = [dead EXCEPT ![t] = FALSE]
    /\ pc' = [pc EXCEPT ![t] = "idle"]
    /\ cur' = [cur EXCEPT ![t] = 0]
    /\ slice' = [slice EXCEPT ![t] = "none"]
    /\ data' = [data EXCEPT ![t] = ZeroValue]
    /\ out' = NoOut
    /\ UNCHANGED <<buffer, mutex, finalizer, reachable, orig, crashed>>

\* Expose: return data, then the deferred s.mutex.Unlock()
ExposeReturn(t) ==
    /\ ~crashed
    /\ pc[t] = "return"
    /\ mutex' = [mutex EXCEPT ![cur[t]] = FALSE]
    /\ dead' = [dead EXCEPT ![t] = FALSE]
    /\ pc' = [pc EXCEPT ![t] = "idle"]
    /\ cur' = [cur EXCEPT ![t] = 0]
    /\ slice' = [slice EXCEPT ![t] = "none"]
    /\ data' = [data EXCEPT ![t] = ZeroValue]
    /\ out' = NoOut
    /\ UNCHANGED <<buffer, finalizer, reachable, orig, crashed>>

\* a String that can only run while the mutex is free
String_Locks(t, c) ==
    /\ ~crashed
    /\ pc[t] = "idle"
    /\ reachable[c]
    /\ ~mutex[c]
    /\ out' = [NoOut EXCEPT !.op = "String", !.kind = "string", !.cell = c, !.str = SecretToken]
    /\ UNCHANGED <<buffer, mutex, finalizer, reachable, orig, pc, cur, slice, data, dead, crashed>>

\* String: return "[SECRET]"
String(t, c) ==
    /\ ~crashed
    /\ pc[t] = "idle"
    /\ reachable[c]
    /\ out' = [NoOut EXCEPT !.op = "String", !.kind = "string", !.cell = c, !.str = SecretToken]
    /\ UNCHANGED <<buffer, mutex, finalizer, reachable, orig, pc, cur, slice, data, dead, crashed>>

\* a Destroy that marks an already destroyed buffer alive again
Destroy_Revives(p, c) ==
    /\ ~Destroying(c)
    /\ IF ~buffer[c].alive
       THEN /\ buffer' = [buffer EXCEPT ![c].alive = TRUE]
            /\ out' = Returned(c)
            /\ UNCHANGED <<pc, cur>>
       ELSE /\ pc' = [pc EXCEPT ![p] = "wiping"]
            /\ cur' = [cur EXCEPT ![p] = c]
            /\ out' = NoOut
            /\ UNCHANGED buffer
    /\ UNCHANGED <<mutex, orig, slice, data, dead, crashed>>

\* a Destroy that cannot be called on a destroyed buffer
Destroy_Once(p, c) ==
    /\ ~Destroying(c)
    /\ buffer[c].alive
    /\ pc' = [pc EXCEPT ![p] = "wiping"]
    /\ cur' = [cur EXCEPT ![p] = c]
    /\ out' = NoOut
    /\ UNCHANGED <<buffer, mutex, orig, slice, data, dead, crashed>>

\* s.buffer.Destroy() entered by p: returns at once on a destroyed buffer,
\* otherwise starts wiping.  The Secret's mutex is not touched.
Destroy(p, c) ==
    /\ ~Destroying(c)
    /\ IF ~buffer[c].alive
       THEN /\ out' = Returned(c)
            /\ UNCHANGED <<pc, cur>>
       ELSE /\ pc' = [pc EXCEPT ![p] = "wiping"]
            /\ cur' = [cur EXCEPT ![p] = c]
            /\ out' = NoOut
    /\ UNCHANGED <<buffer, mutex, orig, slice, data, dead, crashed>>

\* zero() called by a goroutine that holds the Secret
zero(t, c) ==
    /\ ~crashed
    /\ pc[t] = "idle"
    /\ reachable[c]
    /\ Destroy(t, c)
    /\ UNCHANGED <<finalizer, reachable>>

\* the finalizer set by NewSecret: func(s) { s.zero() }, run by the runtime
\* once the Secret is unreachable
Finalizer(c) ==
    /\ ~crashed
    /\ pc[Fin] = "idle"
    /\ finalizer[c] = "set"
    /\ ~reachable[c]
    /\ finalizer' = [finalizer EXCEPT ![c] = "ran"]
    /\ Destroy(Fin, c)
    /\ UNCHANGED reachable

\* Destroy: the wipe of the buffer's memory advances
DestroyWipe(p) ==
    /\ ~crashed
    /\ pc[p] = "wiping"
    /\ LET c == cur[p]
           d == buffer[c].data
       IN  /\ Wiped(d) < Len(d)
           /\ \E k \in (Wiped(d) + 1)..Len(d) :
                 buffer' = [buffer EXCEPT ![c].data = WipedTo(d, k)]
    /\ out' = NoOut
    /\ UNCHANGED <<mutex, finalizer, reachable, orig, pc, cur, slice, data, dead, crashed>>

\* a Destroy that tears down every LockedBuffer of the process
DestroyFree_Purge(p) ==
    /\ ~crashed
    /\ pc[p] = "wiping"
    /\ Wiped(buffer[cur[p]].data) = Len(buffer[cur[p]].data)
    /\ buffer' = [d \in Secrets |-> IF buffer[d].made
                                    THEN [made |-> TRUE, alive |-> FALSE, data |-> <<>>]
                                    ELSE buffer[d]]
    /\ pc' = [pc EXCEPT ![p] = "idle"]
    /\ cur' = [cur EXCEPT ![p] = 0]
    /\ out' = NoOut
    /\ UNCHANGED <<mutex, finalizer, reachable, orig, slice, data, dead, crashed>>

\* Destroy: the wiped memory is unmapped and the buffer marked dead
DestroyFree(p) ==
    /\ ~crashed
    /\ pc[p] = "wiping"
    /\ LET c == cur[p] IN
       /\ Wiped(buffer[c].data) = Len(buffer[c].data)
       /\ buffer' = [buffer EXCEPT ![c] = [made |-> TRUE, alive |-> FALSE, data |-> <<>>]]
    /\ pc' = [pc EXCEPT ![p] = "idle"]
    /\ cur' = [cur EXCEPT ![p] = 0]
    /\ out' = NoOut
    /\ UNCHANGED <<mutex, finalizer, reachable, orig, slice, data, dead, crashed>>

\* a collector that takes a Secret for unreachable while a call on it is
\* still in progress
Drop_MidCall(c) ==
    /\ ~crashed
    /\ reachable[c]
    /\ reachable' = [reachable EXCEPT ![c] = FALSE]
    /\ out' = NoOut
    /\ UNCHANGED <<buffer, mutex, finalizer, orig, pc, cur, slice, data, dead, crashed>>

\* the last pointer to the Secret is dropped; a call in progress keeps its
\* receiver reachable until it returns
Drop(c) ==
    /\ ~crashed
    /\ reachable[c]
    /\ \A t \in Threads : pc[t] = "idle" \/ cur[t] # c
    /\ reachable' = [reachable EXCEPT ![c] = FALSE]
    /\ out' = NoOut
    /\ UNCHANGED <<buffer, mutex, finalizer, orig, pc, cur, slice, data, dead, crashed>>

Next ==
    \/ \E t \in Threads, v \in Values, encOK \in BOOLEAN, openOK \in BOOLEAN, k \in 0..Len(Header(ZeroValue)) :
          NewSecret(t, v, encOK, openOK, k)
    \/ \E t \in Threads, c \in Secrets : ExposeLock(t, c)
    \/ \E t \in Threads : ExposeBytes(t)
    \/ \E t \in Threads : ExposeDecode(t)
    \/ \E t \in Threads : ExposeReturn(t)
    \/ \E t \in Threads, c \in Secrets : String(t, c)
    \/ \E t \in Threads, c \in Secrets : zero(t, c)
    \/ \E c \in Secrets : Finalizer(c)
    \/ \E p \in Procs : DestroyWipe(p)
    \/ \E p \in Procs : DestroyFree(p)
    \/ \E c \in Secrets : Drop(c)

Spec == Init /\ [][Next]_vars

\* a step of a call that goroutine p is inside of
Running(p) ==
    \/ p \in Threads /\ (ExposeBytes(p) \/ ExposeDecode(p) \/ ExposeReturn(p))
    \/ DestroyWipe(p) \/ DestroyFree(p)

\* the Go scheduler keeps running every goroutine that can run
FairSpec == Spec /\ \A t \in Threads : WF_vars(Running(t))

\* ... and the runtime runs the finalizer of every unreachable Secret
FairGC ==
    /\ FairSpec
    /\ WF_vars(Running(Fin))
    /\ \A c \in Cells : WF_vars(Finalizer(c))

\* the package as it is used from outside, with at least two Secrets: zero
\* is unexported and called by nothing but the finalizer
NextGC ==
    \/ \E t \in Threads, v \in Values, encOK \in BOOLEAN, openOK \in BOOLEAN, k \in 0..Len(Header(ZeroValue)) :
          NewSecret(t, v, encOK, openOK, k)
    \/ \E t \in Threads, c \in Secrets : ExposeLock(t, c)
    \/ \E t \in Threads : ExposeBytes(t)
    \/ \E t \in Threads : ExposeDecode(t)
    \/ \E t \in Threads : ExposeReturn(t)
    \/ \E t \in Threads, c \in Secrets : String(t, c)
    \/ \E c \in Secrets : Finalizer(c)
    \/ DestroyWipe(Fin)
    \/ DestroyFree(Fin)
    \/ \E c \in Secrets : Drop(c)

SpecGC == InitCells /\ [][NextGC]_vars

\* the same program with at least two Secrets
SpecCells == InitCells /\ [][Next]_vars

\* ------------------------------------------------------------ properties

\* C1: Expose on a Secret whose zero() has completed fails loudly with an
\* InvalidAccess outcome; it never gets to hand a value back to the caller
\* (it never reaches `return data`).
C1_ExposeOnDestroyedFailsLoudly ==
    \A t \in Threads : ~(pc[t] = "return" /\ dead[t])

\* C2: on every exit path of NewSecret (Encode failure, Open failure,
\* success) the intermediate byte buffer is all zeros when NewSecret returns.
C2_PlaintextWipedOnEveryExit ==
    out.op = "NewSecret" => AllZero(out.buf)

\* C3: the Secret's lock is held for the whole of every destroy, and no
\* destroy is in progress while an Expose of the same Secret is between its
\* Lock and its Unlock.
C3_DestroyExcludesExpose ==
    \A c \in Cells :
        Destroying(c) => (mutex[c] /\ ~\E t \in Threads : InExpose(t, c))

\* C4: with a destroy racing with Expose calls, an Expose that hands a value
\* back (the only way the code lets it end: there is no InvalidAccess exit)
\* hands back exactly the constructed value.
C4_ExposeValueOrInvalidAccess ==
    \A t \in Threads :
        pc[t] = "return" => data[t] = orig[cur[t]]

\* C5: round trip: a live Secret holds the encoding of the value v that
\* NewSecret was given, that encoding decodes to v, and Expose on the live
\* Secret returns v.
C5_RoundTrip ==
    \A c \in Cells :
        Live(c) =>
            /\ Decode(buffer[c].data) = [ok |-> TRUE, val |-> orig[c]]
            /\ \A t \in Threads :
                  (pc[t] = "return" /\ cur[t] = c) => data[t] = orig[c]

C5_Witness ==
    \E t \in Threads :
        /\ pc[t] = "return"
        /\ Live(cur[t])
        /\ orig[cur[t]] = Value(NumValues - 1)
        /\ data[t] = orig[cur[t]]

\* C6: String can run in every state of the Secret (live, being destroyed,
\* released, locked by an Expose in progress) without the lock, and every
\* way it can run returns "[SECRET]" and changes neither buffer nor lock.
C6_StringRedacts ==
    \A t \in Threads, c \in Cells :
        (~crashed /\ pc[t] = "idle" /\ reachable[c]) =>
            /\ ENABLED String(t, c)
            /\ ~ENABLED (String(t, c) /\ ~(/\ out'.str = SecretToken
                                           /\ buffer' = buffer
                                           /\ mutex' = mutex))

C6_Witness ==
    /\ out.op = "String"
    /\ out.str = SecretToken
    /\ orig[out.cell] # ZeroValue
    /\ mutex[out.cell]
    /\ \E u \in Threads : InExpose(u, out.cell)

\* C7: with several goroutines calling Expose on the same live Secret and
\* no destroy, at most one is inside the guarded section at a time, the
\* lock is held while it is, and each call decodes the constructed value.
C7_ConcurrentExpose ==
    \A c \in Cells :
        /\ Cardinality({t \in Threads : InExpose(t, c)}) <= 1
        /\ \A t \in Threads :
              InExpose(t, c) =>
                 /\ mutex[c]
                 /\ (pc[t] = "return" /\ Live(c)) => data[t] = orig[c]

C7_Witness ==
    \E t \in Threads, u \in Threads, c \in Cells :
        /\ t # u
        /\ Live(c)
        /\ orig[c] # ZeroValue
        /\ pc[t] = "return" /\ cur[t] = c /\ data[t] = orig[c]
        /\ pc[u] = "idle" /\ reachable[c] /\ ~ENABLED ExposeLock(u, c)

\* C8: whenever the buffer of a Secret can be observed by an Expose in
\* progress it holds exactly the serialized constructed value or is
\* all-zero/released; once a destroy has completed it is released.
C8_RegionValidOrWiped ==
    \A c \in Cells :
        /\ (buffer[c].made /\ \E t \in Threads : InExpose(t, c)) =>
              (buffer[c].data = Encode(orig[c]) \/ AllZero(buffer[c].data))
        /\ Released(c) => buffer[c].data = <<>>

\* C9: once a Secret is released it stays released, and its buffer is
\* never populated again, whatever calls follow.
C9_ReleasedIsForever ==
    [][\A c \in Cells :
          Released(c) => (Released(c)' /\ buffer'[c] = buffer[c])]_vars

C9_Witness ==
    \E t \in Threads, c \in Cells :
        /\ Released(c)
        /\ orig[c] # ZeroValue
        /\ pc[t] = "return" /\ cur[t] = c /\ dead[t]

\* a step of Expose taken by goroutine t
ExposeStep(t) ==
    /\ pc'[t] # pc[t]
    /\ pc[t] \in {"locked", "bytes", "return"} \/ pc'[t] = "locked"

\* C10: no step of an Expose on a live Secret changes the buffer or the
\* lifecycle state; the value it returns is the constructed one and when
\* it returns the lock is free.
C10_ExposeLeavesCellIntact ==
    [][\A t \in Threads, c \in Cells :
          (ExposeStep(t) /\ c = (IF pc[t] = "idle" THEN cur'[t] ELSE cur[t]) /\ Live(c)) =>
              /\ buffer' = buffer
              /\ Live(c)'
              /\ pc'[t] = "idle" => (~mutex'[c] /\ data[t] = orig[c])]_vars

C10_Witness ==
    \E t \in Threads, c \in Cells :
        /\ Live(c)
        /\ orig[c] # ZeroValue
        /\ buffer[c].data = Encode(orig[c])
        /\ pc[t] = "return" /\ cur[t] = c /\ data[t] = orig[c]
        /\ mutex[c]
        /\ out = NoOut

\* C11: construction is all-or-nothing.  A NewSecret that hands back a Secret
\* hands back a new one whose buffer is live and holds the encoding of the
\* value given, with its finalizer registered, and touches no other Secret;
\* a NewSecret that hands back an error (Encode or Open failed) hands back
\* no Secret and leaves every buffer, finalizer and reference as it was.
C11_AllOrNothing ==
    [][out'.op = "NewSecret" =>
          \/ /\ out'.kind = "secret"
             /\ out'.cell \in Cells
             /\ LET c == out'.cell IN
                /\ buffer[c] = NoBuffer /\ finalizer[c] = "none"
                /\ buffer'[c] = [made |-> TRUE, alive |-> TRUE, data |-> Encode(orig'[c])]
                /\ Decode(buffer'[c].data).ok
                /\ finalizer'[c] = "set"
                /\ reachable'[c]
                /\ \A d \in Cells \ {c} :
                      /\ buffer'[d] = buffer[d]
                      /\ finalizer'[d] = finalizer[d]
          \/ /\ out'.kind \in {"encodeErr", "openErr"}
             /\ out'.cell = 0
             /\ buffer' = buffer
             /\ finalizer' = finalizer
             /\ reachable' = reachable]_vars

C11_Witness ==
    /\ out.op = "NewSecret"
    /\ out.kind = "openErr"
    /\ out.cell = 0
    /\ \A c \in Cells : buffer[c] = NoBuffer /\ finalizer[c] = "none" /\ ~reachable[c]

\* C12: zero() on a Secret whose buffer is already destroyed is a defined
\* no-op: it can always be called (by a goroutine, and by the finalizer
\* when the Secret was zeroed before it became unreachable), it returns at
\* once, and it leaves the buffer, the lock and every goroutine as they
\* were, so a second destroy ends in the state the first one left.
C12_SecondDestroyIsNoOp ==
    \A c \in Cells :
        (~crashed /\ Released(c)) =>
            /\ \A t \in Threads :
                  (pc[t] = "idle" /\ reachable[c]) =>
                      /\ ENABLED zero(t, c)
                      /\ ~ENABLED (zero(t, c) /\ ~(/\ out' = Returned(c)
                                                  /\ UNCHANGED <<buffer, mutex, finalizer, reachable, orig,
                                                                 pc, cur, slice, data, dead, crashed>>))
            /\ (pc[Fin] = "idle" /\ finalizer[c] = "set" /\ ~reachable[c]) =>
                  /\ ENABLED Finalizer(c)
                  /\ ~ENABLED (Finalizer(c) /\ ~(/\ out' = Returned(c)
                                                 /\ UNCHANGED <<buffer, mutex, reachable, orig,
                                                                pc, cur, slice, data, dead, crashed>>))

C12_Witness ==
    /\ out = Returned(out.cell)
    /\ out.cell \in Cells
    /\ Released(out.cell)
    /\ orig[out.cell] # ZeroValue
    /\ reachable[out.cell]

\* any step of an Expose call by goroutine t on Secret c
ExposeOn(t, c) ==
    \/ ExposeLock(t, c)
    \/ cur[t] = c /\ (ExposeBytes(t) \/ ExposeDecode(t) \/ ExposeReturn(t))

\* any step of a destroy of Secret c by p (a goroutine's zero, the finalizer)
DestroyOn(p, c) ==
    \/ p \in Threads /\ zero(p, c)
    \/ p = Fin /\ Finalizer(c)
    \/ cur[p] = c /\ (DestroyWipe(p) \/ DestroyFree(p))

\* the step leaves Secret d's buffer, lifecycle state and lock as they were
Same(d) ==
    /\ buffer'[d] = buffer[d]
    /\ mutex'[d] = mutex[d]
    /\ Live(d)' = Live(d)
    /\ Destroying(d)' = Destroying(d)
    /\ Released(d)' = Released(d)

\* C13: Secrets are independent.  Every successful NewSecret builds a
\* Secret that did not exist before and leaves the others as they were; no
\* step of an Expose or of a destroy on one Secret changes the buffer, the
\* lifecycle state or the lock of another Secret; and an Expose on a live
\* Secret returns that Secret's own constructed value whatever has been
\* done to the others.
C13_CellsIndependent ==
    \A d \in Secrets :
        /\ \A t \in Threads, v \in Values :
              ~ENABLED (NewSecret(t, v, TRUE, TRUE, 0) /\
                           ~(/\ out'.cell \in Secrets
                             /\ buffer[out'.cell] = NoBuffer
                             /\ out'.cell # d => Same(d)))
        /\ \A c \in Secrets \ {d} :
              /\ \A t \in Threads : ~ENABLED (ExposeOn(t, c) /\ ~Same(d))
              /\ \A p \in Procs : ~ENABLED (DestroyOn(p, c) /\ ~Same(d))
        /\ \A t \in Threads :
              (pc[t] = "return" /\ cur[t] = d /\ Live(d)) => data[t] = orig[d]

C13_Witness ==
    \E t \in Threads, c \in Secrets, d \in Secrets :
        /\ c # d
        /\ Released(c)
        /\ Live(d)
        /\ orig[d] # ZeroValue
        /\ orig[c] # orig[d]
        /\ pc[t] = "return" /\ cur[t] = d /\ data[t] = orig[d]
        /\ \E u \in Threads : pc[u] = "return" /\ cur[u] = c /\ dead[u]

C15_FinalizerReleases ==
    /\ [](\A c \in Cells : buffer[c].made => finalizer[c] \in {"set", "ran"})
    /\ \A c \in Cells : (Live(c) /\ ~reachable[c]) ~> (Released(c) \/ crashed)

C15_Witness ==
    \E c \in Cells :
        /\ ~reachable[c]
        /\ finalizer[c] = "ran"
        /\ pc[Fin] = "wiping" /\ cur[Fin] = c
        /\ orig[c] # ZeroValue
        /\ AllZero(buffer[c].data)
        /\ ENABLED DestroyFree(Fin)

\* C16: with the finalizer as the only caller of zero, every destroy is the
\* finalizer's, it runs at most once for a Secret, and only once no pointer
\* to the Secret is left: no call on the Secret is in progress when it
\* starts or while it runs, and no Expose on the Secret can start after it.
C16_FinalizerNeverRacesExpose ==
    \A c \in Secrets :
        /\ (Destroying(c) \/ Released(c)) => finalizer[c] = "ran"
        /\ Destroying(c) => (pc[Fin] = "wiping" /\ cur[Fin] = c)
        /\ finalizer[c] = "ran" =>
              /\ ~reachable[c]
              /\ ~ENABLED Finalizer(c)
              /\ \A t \in Threads :
                    /\ ~(pc[t] # "idle" /\ cur[t] = c)
                    /\ ~ENABLED ExposeLock(t, c)
        /\ (finalizer[c] = "set" /\ \E t \in Threads : InExpose(t, c)) =>
              ~ENABLED Finalizer(c)

C16_Witness ==
    \E c \in Secrets, t \in Threads :
        /\ Destroying(c)
        /\ pc[Fin] = "wiping" /\ cur[Fin] = c
        /\ finalizer[c] = "ran"
        /\ buffer[c].data # Encode(orig[c])
        /\ pc[t] = "idle"
        /\ ~ENABLED ExposeLock(t, c)

====
